---- MODULE Spec2Model ----
(***************************************************************************)
(* Model of RedisCache.cache (src/app/backend/src/core/cache/decorator.py): *)
(* the memoizing wrapper, its lookups, the lock protocol on                 *)
(* "{cache_key}:lock", the computation and the storing of the result, over  *)
(* a key-value store with expiry shared by concurrent callers.              *)
(*                                                                          *)
(* Time is in milliseconds.  Store operations are atomic; everything a      *)
(* caller does between two store operations is local and is folded into the *)
(* step of the store operation (or of the invocation of the wrapped         *)
(* function) that precedes it.                                              *)
(***************************************************************************)
EXTENDS Integers, Sequences, FiniteSets, TLC

(***************************************************************************)
(* Bounds of the model.                                                     *)
(***************************************************************************)
\* the clock advances in steps of TickMs, up to MaxTicks steps
TickMs == 500
MaxTicks == 2
\* calls made in a run, by all callers
MaxCalls == 2
\* concurrent_check_interval the wrapped functions are configured with (ms)
CheckIntervalMs == 500
\* items of a list or tuple and pairs of a dict given to hash_key
MaxLen == 2
\* calls of hash_key on one input
MaxRepeats == 2

(***************************************************************************)
(* Program constants.                                                       *)
(***************************************************************************)
\* _DEFAULT_CONCURRENT_CHECK_INTERVAL = 0.05 seconds
DefaultCheckIntervalMs == 50

Callers == {"c1", "c2"}

\* Python's None, and a value v of the wrapped function
None == <<>>
Val(n) == <<n>>

\* an expiry: NoExpiry, or At(t) for the time t (ms) at which the key is gone
NoExpiry == <<>>
At(t) == <<t>>

\* the store's answer for a key that is not there
Absent == [kind |-> "absent"]

(***************************************************************************)
(* Configuration of the decorator (the keyword arguments of cache()) and of *)
(* the environment of a run: the callers, and whether the store may fail.   *)
(*   maxWait    concurrent_max_wait_time, ms                                *)
(*   ttl        [kind: "none"] (ttl=None), [kind: "num", us] (a float, in   *)
(*              microseconds), [kind: "nonfinite"] (inf or nan)             *)
(*   validator  "none" (validation_func=None), or what validation_func does *)
(*              on every entry: "true", "false", "raise"                    *)
(*   ive        ignore_validation_error                                     *)
(*   serializer what serializer does: "bytes", "nonbytes", "raise"          *)
(*   func       the outcomes the wrapped function can have: a subset of     *)
(*              {"value", "none", "raise"}                                  *)
(*   flaky      whether store operations can raise (connection, timeout)    *)
(*   callers    the callers that call the wrapped functions                 *)
(*   argsOf     the calls each caller makes: the function called (functions *)
(*              of one run are decorated with the same keyword arguments),  *)
(*              its positional and its keyword arguments                    *)
(*   stored     what the store holds under the cache keys when the run      *)
(*              starts: "" (nothing) or the form of the stored bytes        *)
(***************************************************************************)
TtlNone == [kind |-> "none"]
TtlNum(us) == [kind |-> "num", us |-> us]
TtlNonFinite == [kind |-> "nonfinite"]

VARIABLES
  cfg,        \* the configuration, fixed in Init
  now,        \* the clock, ms (time.monotonic, time.time and the store's clock)
  entries,    \* the store: cache key -> Absent or the stored payload and expiry
  locks,      \* the store: cache key -> Absent or the lock entry at "{key}:lock"
  pc,         \* each caller's position in wrapper
  args,       \* each caller's arguments of the current call
  have_lock,  \* wrapper's local have_lock
  deadline,   \* wrapper's local deadline
  wakeAt,     \* when the caller's time.sleep returns
  result,     \* wrapper's local result
  pending,    \* what the call will end with after the lock is deleted
  ret,        \* how the call ended: what it returned or raised
  ncalls,     \* calls each caller has started
  count,      \* invocations of the wrapped function, by all callers
  first,      \* cache key -> the first value a call for it returned (history)
  hist,       \* history of the current call of each caller (not program state)
  mgmt,       \* each caller's last use of the wrapped function's attributes
  hk          \* the input hash_key is studied on, and what it returned

vars == <<cfg, now, entries, locks, pc, args, have_lock, deadline, wakeAt,
          result, pending, ret, ncalls, count, first, hist, mgmt, hk>>

\* the variables of the decorator and its callers
cacheVars == <<cfg, now, entries, locks, pc, args, have_lock, deadline, wakeAt,
               result, pending, ret, ncalls, count, first, hist, mgmt>>

(***************************************************************************)
(* Keys.                                                                    *)
(***************************************************************************)
\* wrapper, lines 108-110: the positional arguments at the indices (from 0)
\* that are not in ignore_positionals, in order
RECURSIVE FilterArgs(_, _)
FilterArgs(a, i) ==
  IF i > Len(a) THEN <<>>
  ELSE IF (i - 1) \in cfg.ignore_positionals THEN FilterArgs(a, i + 1)
  ELSE <<a[i]>> \o FilterArgs(a, i + 1)

KeyArgs(a) == FilterArgs(a, 1)

\* a call: the function called, its positional arguments (a tuple) and its
\* keyword arguments (a set of <<name, value>> pairs)
Call(fn, pos, kw) == [fn |-> fn, pos |-> pos, kw |-> kw]
NoCall == Call("", <<>>, {})

\* key_kwargs with a bug: ignore_kw is not applied
KeyKwargs_Unfiltered(kw) == kw

\* wrapper, line 111: the keyword arguments whose names are not in ignore_kw
KeyKwargs(kw) == {e \in kw : e[1] \notin cfg.ignore_kw}

\* key_serializer(key_args, key_kwargs), line 116: a fingerprint taken to be
\* free of collisions, and blind to the order of the keyword arguments as
\* hash_key is (lines 58-70): the filtered arguments stand for it
KeySerializer(key_args, key_kwargs) == <<key_args, key_kwargs>>

\* wrapper, lines 113-117: the prefix, the namespace when one is given, and
\* the fingerprint; the function called has no part in it
CacheKey(c) ==
  IF cfg.namespace # ""
  THEN <<cfg.prefix, cfg.namespace, KeySerializer(KeyArgs(c.pos), KeyKwargs(c.kw))>>
  ELSE <<cfg.prefix, KeySerializer(KeyArgs(c.pos), KeyKwargs(c.kw))>>

\* the cache keys of a run: those of the arguments its callers pass
Keys == {CacheKey(a) : a \in cfg.argsOf}

(***************************************************************************)
(* Key derivation: hash_key, the default key_serializer.  Python values are *)
(* pairs of a type and a payload: an int, a str (a tuple of code points), a *)
(* list or a tuple (a tuple of values), a dict or an OrderedDict (a tuple   *)
(* of <<key, value>> pairs in insertion order, with distinct keys).         *)
(***************************************************************************)
PyInt(n) == <<"int", n>>
PyStr(s) == <<"str", s>>
PyList(items) == <<"list", items>>
PyTuple(items) == <<"tuple", items>>
PyDict(items) == <<"dict", items>>
PyOrderedDict(items) == <<"odict", items>>

\* str(n) of an int n >= 0: its decimal digits
RECURSIVE Digits(_)
Digits(n) == IF n < 10 THEN <<48 + n>> ELSE Digits(n \div 10) \o <<48 + (n % 10)>>

\* str(obj) of an int or a str
PyStrOf(obj) == IF obj[1] = "int" THEN Digits(obj[2]) ELSE obj[2]

\* str(type(obj)) of an int or a str: "<class 'int'>", "<class 'str'>"
PyTypeOf(obj) ==
  IF obj[1] = "int" THEN <<60, 99, 108, 97, 115, 115, 32, 39, 105, 110, 116, 39, 62>>
                    ELSE <<60, 99, 108, 97, 115, 115, 32, 39, 115, 116, 114, 39, 62>>

\* _gen_key, lines 27-28: f"{type(obj)}_{obj}"
GenKey(obj) == PyTypeOf(obj) \o <<95>> \o PyStrOf(obj)

\* the order of Python strings: a < b
RECURSIVE StrLess(_, _)
StrLess(a, b) ==
  IF b = <<>> THEN FALSE
  ELSE IF a = <<>> THEN TRUE
  ELSE IF a[1] # b[1] THEN a[1] < b[1]
  ELSE StrLess(Tail(a), Tail(b))

\* sorted(..., key=_gen_key), a stable sort, by insertion: the pair e is put
\* into the sorted pairs s after every pair whose key is not greater
RECURSIVE InsertByKey(_, _)
InsertByKey(e, s) ==
  IF s = <<>> THEN <<e>>
  ELSE IF StrLess(GenKey(e[1]), GenKey(s[1][1])) THEN <<e>> \o s
  ELSE <<s[1]>> \o InsertByKey(e, Tail(s))

RECURSIVE SortedPrefix(_, _)
SortedPrefix(items, n) ==
  IF n = 0 THEN <<>> ELSE InsertByKey(items[n], SortedPrefix(items, n - 1))

\* _sorted_by_keys with a bug: the insertion order is kept
SortedByKeys_Unsorted(items) == items

\* _sorted_by_keys, lines 30-32: the pairs of a dict in the order of the
\* _gen_key of their keys
SortedByKeys(items) == SortedPrefix(items, Len(items))

\* repr(obj), as the f-string of line 69 formats the items of a container
RECURSIVE PyRepr(_), ReprItems(_, _), ReprPairs(_, _, _)
PyRepr(obj) ==
  IF obj[1] = "int" THEN Digits(obj[2])
  ELSE IF obj[1] = "str" THEN <<39>> \o obj[2] \o <<39>>
  ELSE IF obj[1] = "list" THEN <<91>> \o ReprItems(obj[2], 1) \o <<93>>
  ELSE IF obj[1] = "tuple"
  THEN <<40>> \o ReprItems(obj[2], 1) \o (IF Len(obj[2]) = 1 THEN <<44>> ELSE <<>>) \o <<41>>
  ELSE IF obj[1] = "dict" THEN <<123>> \o ReprPairs(obj[2], 1, FALSE) \o <<125>>
  ELSE <<79, 114, 100, 101, 114, 101, 100, 68, 105, 99, 116, 40>>
       \o (IF Len(obj[2]) = 0 THEN <<>>
           ELSE <<91>> \o ReprPairs(obj[2], 1, TRUE) \o <<93>>)
       \o <<41>>

\* the reprs of items[i..], joined by ", "
ReprItems(items, i) ==
  IF i > Len(items) THEN <<>>
  ELSE PyRepr(items[i]) \o (IF i < Len(items) THEN <<44, 32>> ELSE <<>>)
       \o ReprItems(items, i + 1)

\* the reprs of the pairs items[i..], joined by ", ": "key: value" in a dict,
\* "(key, value)" in the list an OrderedDict shows
ReprPairs(items, i, asTuples) ==
  IF i > Len(items) THEN <<>>
  ELSE (IF asTuples
        THEN <<40>> \o PyRepr(items[i][1]) \o <<44, 32>> \o PyRepr(items[i][2]) \o <<41>>
        ELSE PyRepr(items[i][1]) \o <<58, 32>> \o PyRepr(items[i][2]))
       \o (IF i < Len(items) THEN <<44, 32>> ELSE <<>>)
       \o ReprPairs(items, i + 1, asTuples)

\* _sort_dicts with a bug: the items of lists and tuples are sorted too
RECURSIVE InsertByRepr(_, _)
InsertByRepr(e, s) ==
  IF s = <<>> THEN <<e>>
  ELSE IF StrLess(PyRepr(e), PyRepr(s[1])) THEN <<e>> \o s
  ELSE <<s[1]>> \o InsertByRepr(e, Tail(s))

RECURSIVE SortedItems(_, _)
SortedItems(items, n) ==
  IF n = 0 THEN <<>> ELSE InsertByRepr(items[n], SortedItems(items, n - 1))

RECURSIVE SortDicts_SortsSequences(_)
SortDicts_SortsSequences(obj) ==
  IF obj[1] \in {"list", "tuple"}
  THEN <<obj[1], SortedItems([i \in 1..Len(obj[2]) |-> SortDicts_SortsSequences(obj[2][i])],
                             Len(obj[2]))>>
  ELSE IF obj[1] = "odict"
  THEN <<obj[1], [i \in 1..Len(obj[2]) |->
                    <<obj[2][i][1], SortDicts_SortsSequences(obj[2][i][2])>>]>>
  ELSE IF obj[1] = "dict"
  THEN <<obj[1], SortedByKeys([i \in 1..Len(obj[2]) |->
                                 <<obj[2][i][1], SortDicts_SortsSequences(obj[2][i][2])>>])>>
  ELSE obj

\* _sort_dicts, lines 34-48, on the deep copy: what obj is after the call.
\* The items of a list or tuple and the values of a dict (an OrderedDict
\* included) are treated in place; a dict that is not an OrderedDict is then
\* refilled in the order of _sorted_by_keys.
RECURSIVE SortDicts(_)
SortDicts(obj) ==
  IF obj[1] \in {"list", "tuple"}
  THEN <<obj[1], [i \in 1..Len(obj[2]) |-> SortDicts(obj[2][i])]>>
  ELSE IF obj[1] = "odict"
  THEN <<obj[1], [i \in 1..Len(obj[2]) |-> <<obj[2][i][1], SortDicts(obj[2][i][2])>>]>>
  ELSE IF obj[1] = "dict"
  THEN <<obj[1], SortedByKeys([i \in 1..Len(obj[2]) |->
                                 <<obj[2][i][1], SortDicts(obj[2][i][2])>>])>>
  ELSE obj

\* sorted_dicts_args, lines 50-54: _sort_dicts on every item of a copy of args
SortedDictsArgs(args_) ==
  PyTuple([i \in 1..Len(args_[2]) |-> SortDicts(args_[2][i])])

\* sorted_dicts, lines 56-60: _sorted_by_keys of a copy of kwargs, then
\* _sort_dicts on every value
SortedDicts(kwargs) ==
  LET sorted_dict == SortedByKeys(kwargs[2])
  IN  PyDict([i \in 1..Len(sorted_dict) |->
                <<sorted_dict[i][1], SortDicts(sorted_dict[i][2])>>])

\* hashlib.sha256(s.encode()).hexdigest(), taken to be free of collisions:
\* the digest of s stands for itself
Sha256(s) == <<"sha256", s>>

\* hash_key, lines 62-70
HashKey(args_, kwargs) ==
  LET sorted_args == SortedDictsArgs(args_)
      sorted_kwargs == SortedDicts(kwargs)
  IN  Sha256(PyRepr(sorted_args) \o <<44, 32>> \o PyRepr(sorted_kwargs))

\* Python's ==: lists and tuples are equal item by item, a dict equals a dict
\* or an OrderedDict whatever the insertion order, two OrderedDicts are equal
\* pair by pair in order
RECURSIVE PyEq(_, _)
PyEq(x, y) ==
  IF x[1] \in {"int", "str"} \/ y[1] \in {"int", "str"}
  THEN x[1] = y[1] /\ x[2] = y[2]
  ELSE IF x[1] \in {"list", "tuple"} \/ y[1] \in {"list", "tuple"}
  THEN /\ x[1] = y[1]
       /\ Len(x[2]) = Len(y[2])
       /\ \A i \in 1..Len(x[2]) : PyEq(x[2][i], y[2][i])
  ELSE /\ Len(x[2]) = Len(y[2])
       /\ \A i \in 1..Len(x[2]) :
            \E j \in 1..Len(y[2]) :
              /\ x[1] = "odict" /\ y[1] = "odict" => i = j
              /\ PyEq(x[2][i][1], y[2][j][1])
              /\ PyEq(x[2][i][2], y[2][j][2])

\* the permutations of 1..n
Perms(n) == {f \in [1..n -> 1..n] : \A i, j \in 1..n : f[i] = f[j] => i = j}

\* the values that differ from obj only in the insertion order of the keys of
\* dicts that are not OrderedDicts, at any depth
RECURSIVE Reorderings(_)
Reorderings(obj) ==
  IF obj[1] \in {"int", "str"} THEN {obj}
  ELSE LET n == Len(obj[2])
           all == UNION {Reorderings(IF obj[1] \in {"list", "tuple"}
                                     THEN obj[2][i] ELSE obj[2][i][2]) : i \in 1..n}
       IN  IF obj[1] \in {"list", "tuple"}
           THEN {<<obj[1], s>> : s \in {t \in [1..n -> all] :
                                          \A i \in 1..n : t[i] \in Reorderings(obj[2][i])}}
           ELSE {<<obj[1], [i \in 1..n |-> <<obj[2][f[i]][1], s[f[i]]>>]>> :
                   f \in (IF obj[1] = "dict" THEN Perms(n) ELSE {[i \in 1..n |-> i]}),
                   s \in {t \in [1..n -> all] :
                            \A i \in 1..n : t[i] \in Reorderings(obj[2][i][2])}}

\* the values got from obj by permuting the items of one list or tuple, at any
\* depth, into a sequence that is not equal to it item by item
RECURSIVE Permutings(_)
Permutings(obj) ==
  IF obj[1] \in {"int", "str"} THEN {}
  ELSE LET n == Len(obj[2])
       IN  IF obj[1] \in {"list", "tuple"}
           THEN {<<obj[1], [i \in 1..n |-> obj[2][f[i]]]>> :
                   f \in {g \in Perms(n) : \E i \in 1..n : ~PyEq(obj[2][g[i]], obj[2][i])}}
                \cup UNION {{<<obj[1], [obj[2] EXCEPT ![i] = w]>> : w \in Permutings(obj[2][i])} :
                              i \in 1..n}
           ELSE UNION {{<<obj[1], [obj[2] EXCEPT ![i] = <<obj[2][i][1], w>>]>> :
                          w \in Permutings(obj[2][i][2])} : i \in 1..n}

\* the sequences of at most MaxLen items of S
SeqsOver(S) == UNION {[1..n -> S] : n \in 0..MaxLen}

\* the <<key, value>> pairs of dicts with keys in K and values in S
PairsOver(K, S) ==
  {p \in SeqsOver(K \X S) : \A i, j \in 1..Len(p) : p[i][1] = p[j][1] => i = j}

\* the containers whose items or values are in S, with keys in K
ContainersOver(K, S) ==
  {PyList(s) : s \in SeqsOver(S)} \cup {PyTuple(s) : s \in SeqsOver(S)}
  \cup {PyDict(p) : p \in PairsOver(K, S)} \cup {PyOrderedDict(p) : p \in PairsOver(K, S)}

\* the inputs of hash_key: one positional argument, an int or a container of
\* depth one or two, and keyword arguments named x and y
Leaves == {PyInt(1), PyInt(2)}
KeyNames == {PyStr(<<97>>), PyStr(<<98>>)}
Level1 == Leaves \cup ContainersOver(KeyNames, Leaves)
Nested ==
  {PyInt(1), PyList(<<PyInt(1), PyInt(2)>>),
   PyDict(<<<<PyStr(<<98>>), PyInt(2)>>, <<PyStr(<<97>>), PyInt(1)>>>>)}
Level2 == Level1 \cup ContainersOver(KeyNames, Nested)
HashKwargs ==
  {PyDict(<<>>),
   PyDict(<<<<PyStr(<<121>>), PyInt(1)>>, <<PyStr(<<120>>), PyInt(2)>>>>),
   PyDict(<<<<PyStr(<<121>>), PyTuple(<<PyInt(1), PyInt(2)>>)>>,
            <<PyStr(<<120>>), PyDict(<<<<PyStr(<<98>>), PyInt(2)>>, <<PyStr(<<97>>), PyInt(1)>>>>)>>>>),
   PyDict(<<<<PyStr(<<120>>), PyList(<<PyTuple(<<PyInt(2), PyInt(1)>>)>>)>>>>)}
HashInputs == {[args |-> PyTuple(<<v>>), kwargs |-> k] : v \in Level2, k \in HashKwargs}

(***************************************************************************)
(* The store: GET, SET with EX/PX, SET NX EX, DELETE, and its expiry.       *)
(***************************************************************************)
\* a key with an expiry is gone once its expiry time is reached
Live(x) == x # Absent /\ (x.exp = NoExpiry \/ now < x.exp[1])

\* GET with a bug: the entry of some cache key, not of the one asked for
StoreGet_AnyKey(k) ==
  LET live == {j \in Keys : Live(entries[j])}
  IN  IF live = {} THEN Absent ELSE entries[CHOOSE j \in live : TRUE]

\* GET key
StoreGet(k) == IF Live(entries[k]) THEN entries[k] ELSE Absent

\* the expiry of SET key value [EX seconds | PX milliseconds]
ExpiryOf(ttl_kwargs) ==
  IF ttl_kwargs.ex # <<>> THEN At(now + ttl_kwargs.ex[1] * 1000)
  ELSE IF ttl_kwargs.px # <<>> THEN At(now + ttl_kwargs.px[1])
  ELSE NoExpiry

\* the outcomes of one store operation: it is carried out (FALSE), or, when
\* the store of the run can fail, it raises and changes nothing (TRUE)
StoreFailures == IF cfg.flaky THEN {FALSE, TRUE} ELSE {FALSE}

(***************************************************************************)
(* The lookup.                                                              *)
(***************************************************************************)
\* what a lookup gives: a Python value, or an exception
Gives(v) == [exc |-> "", value |-> v]
Raises(e) == [exc |-> e, value |-> None]

\* _load_cached_response with a bug: the deserializer's exception is swallowed
\* whatever ignore_validation_error is
LoadCachedResponse_Swallow(k, getFails) ==
  IF getFails THEN [exc |-> "", resp |-> Absent]
  ELSE LET raw_value == StoreGet(k)
       IN  IF raw_value = Absent THEN [exc |-> "", resp |-> Absent]
           ELSE IF raw_value.form = "entry" THEN [exc |-> "", resp |-> raw_value]
           ELSE [exc |-> "", resp |-> Absent]

\* _load_cached_response with a bug: what the deserializer returns is not
\* checked to be a dict with a "value" key
LoadCachedResponse_Unchecked(k, getFails) ==
  IF getFails THEN [exc |-> "", resp |-> Absent]
  ELSE LET raw_value == StoreGet(k)
       IN  IF raw_value = Absent THEN [exc |-> "", resp |-> Absent]
           ELSE IF raw_value.form = "corrupt"
                THEN (IF cfg.ive THEN [exc |-> "", resp |-> Absent]
                                 ELSE [exc |-> "DeserializerError", resp |-> Absent])
           ELSE [exc |-> "", resp |-> raw_value]

\* _load_cached_response, lines 120-142: None (here Absent), the decoded
\* payload, or an exception of the deserializer.  A stored payload's form says
\* what the deserializer makes of its bytes: "corrupt" (it raises), "nondict"
\* (not a dict), "novalue" (a dict without "value"), "entry" (a dict with
\* "value").
LoadCachedResponse(k, getFails) ==
  IF getFails THEN [exc |-> "", resp |-> Absent]
  ELSE LET raw_value == StoreGet(k)
       IN  IF raw_value = Absent THEN [exc |-> "", resp |-> Absent]
           ELSE IF raw_value.form = "corrupt"
                THEN (IF cfg.ive THEN [exc |-> "", resp |-> Absent]
                                 ELSE [exc |-> "DeserializerError", resp |-> Absent])
           ELSE IF raw_value.form = "nondict" THEN [exc |-> "", resp |-> Absent]
           ELSE IF raw_value.form = "novalue" THEN [exc |-> "", resp |-> Absent]
           ELSE [exc |-> "", resp |-> raw_value]

\* _resolve_cached_value with a bug: the entry that was found is dropped
ResolveCachedValue_Dropped(k, getFails) == Gives(None)

\* _resolve_cached_value with a bug: the validator is not consulted
ResolveCachedValue_NoValidator(k, getFails) ==
  LET cached_response == LoadCachedResponse(k, getFails)
  IN  IF cached_response.exc # "" THEN Raises(cached_response.exc)
      ELSE IF cached_response.resp = Absent THEN Gives(None)
      ELSE Gives(cached_response.resp.value)

\* _resolve_cached_value with a bug: the validator's exception is swallowed
\* whatever ignore_validation_error is
ResolveCachedValue_Swallow(k, getFails) ==
  LET cached_response == LoadCachedResponse(k, getFails)
  IN  IF cached_response.exc # "" THEN Raises(cached_response.exc)
      ELSE IF cached_response.resp = Absent THEN Gives(None)
      ELSE IF cfg.validator \in {"none", "true"}
           THEN Gives(cached_response.resp.value)
      ELSE Gives(None)

\* _resolve_cached_value, lines 144-157: the entry's value when there is an
\* entry and the validator (if any) accepts it; None otherwise
ResolveCachedValue(k, getFails) ==
  LET cached_response == LoadCachedResponse(k, getFails)
  IN  IF cached_response.exc # "" THEN Raises(cached_response.exc)
      ELSE IF cached_response.resp = Absent THEN Gives(None)
      ELSE IF cfg.validator \in {"none", "true"}
           THEN Gives(cached_response.resp.value)
      ELSE IF cfg.validator = "raise"
           THEN (IF ~cfg.ive THEN Raises("ValidatorError") ELSE Gives(None))
      ELSE Gives(None)

\* whether a lookup finds a usable entry that the validator (if any) accepts
Accepted(k, getFails) ==
  LET cached_response == LoadCachedResponse(k, getFails)
  IN  /\ cached_response.exc = ""
      /\ cached_response.resp # Absent
      /\ cfg.validator \in {"none", "true"}

\* whether a lookup finds a usable entry and calls the validator on it
Validated(k, getFails) ==
  LET cached_response == LoadCachedResponse(k, getFails)
  IN  /\ cached_response.exc = ""
      /\ cached_response.resp # Absent
      /\ cfg.validator # "none"

(***************************************************************************)
(* The callers.                                                             *)
(***************************************************************************)
\* a use of an attribute of the wrapped function: which, with what arguments,
\* and how it ended
NoUse == [op |-> "", call |-> NoCall, kind |-> "none", value |-> None, exc |-> ""]

\* how a call ends
Returned(v) == [kind |-> "return", value |-> v, exc |-> ""]
Raised(e) == [kind |-> "raise", value |-> None, exc |-> e]
NotEnded == [kind |-> "none", value |-> None, exc |-> ""]

\* the history of a call:
\*   invoked   whether it invoked the wrapped function: "no", "locked" (holding
\*             the lock), "lockless"
\*   timedOut  it left the polling loop because its deadline had passed
\*   storeErr  a store operation of it raised
\*   prior     the value an earlier call for the same cache key returned first
\*             (None if none has)
\*   accepted  a lookup of it found a usable entry the validator (if any) accepts
\*   seen      the value of that entry
\*   fraised   the wrapped function raised
\*   vraised   the validator raised in a lookup of it
\*   acquired  its SET NX of the lock succeeded
\*   deleted   it issued DELETE on the lock key
\*   foreign   its DELETE removed a lock entry another caller had created
\*   wrote     its SET of the entry was carried out
\*   serErr    the serializer raised or returned a non-bytes value
\*   lastLock  how its last SET NX of the lock went
\*   sleeps    how many times it called time.sleep in the polling loop
\*   keyGot    the arguments its call of key_serializer passed
\*   funcGot   the arguments its call of the wrapped function passed
\*   validatorGot  the arguments its last call of the validator passed
\*   vcalls    how many times it called the validator
\*   vtotal    how many times the calls of this caller, this one and the
\*             earlier ones, called the validator
\*   prev      how the caller's previous call ended
NoHist == [invoked |-> "no", timedOut |-> FALSE, storeErr |-> FALSE, prior |-> None,
           accepted |-> FALSE, seen |-> None, fraised |-> FALSE,
           vraised |-> FALSE, acquired |-> FALSE,
           deleted |-> FALSE, foreign |-> FALSE, wrote |-> FALSE, serErr |-> FALSE,
           lastLock |-> "", sleeps |-> 0,
           keyGot |-> [args |-> <<>>, kwargs |-> {}], funcGot |-> NoCall,
           validatorGot |-> NoCall, vcalls |-> 0, vtotal |-> 0, prev |-> NotEnded]

\* wrapper, lines 101-103
EffectiveCheckInterval ==
  IF cfg.checkInterval > 0 THEN cfg.checkInterval ELSE DefaultCheckIntervalMs

\* math.ceil(ms / 1000)
CeilSeconds(ms) == (ms + 999) \div 1000

LockTtl_Floor == cfg.maxWait \div 1000

\* wrapper, line 167: lock_ttl, in seconds
LockTtl == IF CeilSeconds(cfg.maxWait) > 1 THEN CeilSeconds(cfg.maxWait) ELSE 1

\* ttl_kwargs with a bug: every ttl is passed in whole seconds
TtlKwargs_Seconds ==
  IF cfg.ttl.kind = "none" THEN [ex |-> <<>>, px |-> <<>>]
  ELSE [ex |-> <<cfg.ttl.us \div 1000000>>, px |-> <<>>]

\* wrapper, lines 200-214: ttl_kwargs for a ttl that is None or finite and > 0
TtlKwargs ==
  IF cfg.ttl.kind = "none" THEN [ex |-> <<>>, px |-> <<>>]
  ELSE IF cfg.ttl.us % 1000000 = 0
       THEN [ex |-> <<cfg.ttl.us \div 1000000>>, px |-> <<>>]
       ELSE [ex |-> <<>>,
             px |-> <<IF cfg.ttl.us \div 1000 > 1 THEN cfg.ttl.us \div 1000 ELSE 1>>]

SkipsStorage_Never == FALSE

\* wrapper, lines 200-203: ttl is given and <= 0, nothing is stored
SkipsStorage == cfg.ttl.kind = "num" /\ cfg.ttl.us <= 0

\* wrapper, lines 216-220, serialized, with the expiry the store gives it
\* (history: by, the call whose result it holds; ttl_kwargs, the expiry
\* arguments its SET passed)
CachePayload(p) ==
  [kind |-> "bytes", form |-> "entry", timestamp |-> now, value |-> result[p],
   parameters |-> [args |-> KeyArgs(args[p].pos), kwargs |-> KeyKwargs(args[p].kw)],
   exp |-> ExpiryOf(TtlKwargs), by |-> args[p], ttl_kwargs |-> TtlKwargs]

\* bytes that something else than the wrapper left under a cache key
StoredBytes(form) ==
  [kind |-> "bytes", form |-> form, timestamp |-> 0, value |-> Val(0),
   parameters |-> [args |-> <<>>, kwargs |-> {}], exp |-> NoExpiry, by |-> NoCall,
   ttl_kwargs |-> [ex |-> <<>>, px |-> <<>>]]

\* the call of caller p returns or raises e (history: the first value returned
\* for its cache key is kept)
End(p, e) ==
  /\ pc' = [pc EXCEPT ![p] = "ended"]
  /\ ret' = [ret EXCEPT ![p] = e]
  /\ first' = IF e.kind = "return" /\ e.value # None /\ first[CacheKey(args[p])] = None
              THEN [first EXCEPT ![CacheKey(args[p])] = e.value]
              ELSE first

\* the end of a call with a bug: the lock that is held is not deleted
EndWith_NoRelease(p, e) ==
  /\ End(p, e)
  /\ pending' = pending

\* the end of a call with a bug: the lock key is deleted whether or not the
\* caller holds the lock
EndWith_AlwaysRelease(p, e) ==
  /\ pc' = [pc EXCEPT ![p] = "unlock"]
  /\ pending' = [pending EXCEPT ![p] = e]
  /\ UNCHANGED <<ret, first>>

\* the call of caller p is to end with e: at once when it holds no lock
\* (have_lock is false), after the DELETE of the lock key otherwise
EndWith(p, e) ==
  IF have_lock[p]
  THEN /\ pc' = [pc EXCEPT ![p] = "unlock"]
       /\ pending' = [pending EXCEPT ![p] = e]
       /\ UNCHANGED <<ret, first>>
  ELSE /\ End(p, e)
       /\ pending' = pending

\* wrapper is called (lines 107-118), by a caller whose previous call, if
\* any, has returned or raised; its locals are new
Begin(p) ==
  /\ pc[p] \in {"idle", "ended"}
  /\ p \in cfg.callers
  /\ ncalls["c1"] + ncalls["c2"] < MaxCalls
  /\ \E a \in cfg.argsOf :
       /\ args' = [args EXCEPT ![p] = a]
       /\ hist' = [hist EXCEPT ![p] =
            [NoHist EXCEPT !.prior = first[CacheKey(a)],
                           !.keyGot = [args |-> KeyArgs(a.pos), kwargs |-> KeyKwargs(a.kw)],
                           !.vtotal = hist[p].vtotal, !.prev = ret[p]]]
  /\ pc' = [pc EXCEPT ![p] = "lookup"]
  /\ ncalls' = [ncalls EXCEPT ![p] = @ + 1]
  /\ ret' = [ret EXCEPT ![p] = NotEnded]
  /\ have_lock' = [have_lock EXCEPT ![p] = FALSE]
  /\ deadline' = [deadline EXCEPT ![p] = 0]
  /\ wakeAt' = [wakeAt EXCEPT ![p] = 0]
  /\ result' = [result EXCEPT ![p] = None]
  /\ UNCHANGED <<cfg, hk, mgmt, now, entries, locks, pending, count, first>>

\* where a caller goes on after a miss, with a bug: after the final lookup it
\* goes back to the polling loop
AfterMiss_Loops(at) ==
  IF at = "lookup" THEN (IF cfg.maxWait > 0 THEN "loop" ELSE "call")
  ELSE IF at = "poll" THEN "trylock"
  ELSE "loop"

\* where a caller goes on after a miss, with a bug: the polling loop is
\* entered whatever concurrent_max_wait_time is
AfterMiss_AlwaysLoops(at) ==
  IF at = "lookup" THEN "loop"
  ELSE IF at = "poll" THEN "trylock"
  ELSE "call"

\* where a caller goes on after a lookup gave None
AfterMiss(at) ==
  IF at = "lookup" THEN (IF cfg.maxWait > 0 THEN "loop" ELSE "call")
  ELSE IF at = "poll" THEN "trylock"
  ELSE "call"

\* the test of a lookup's result with a bug: an accepted entry is a hit
\* whatever its value is
Hit_AnyValue(k, getFails) == Accepted(k, getFails)

\* wrapper, lines 160, 171 and 187: `if cached_result is not None`
Hit(k, getFails) == ResolveCachedValue(k, getFails).value # None

\* the lookups of wrapper: lines 159-161 (pc "lookup", then lines 163-167),
\* lines 170-172 (pc "poll") and lines 185-188 (pc "final")
Lookup(p) ==
  /\ pc[p] \in {"lookup", "poll", "final"}
  /\ \E getFails \in StoreFailures :
       LET k == CacheKey(args[p])
           cached_result == ResolveCachedValue(k, getFails)
       IN  /\ hist' = [hist EXCEPT
                 ![p].storeErr = @ \/ getFails,
                 ![p].accepted = @ \/ Accepted(k, getFails),
                 ![p].seen = IF Accepted(k, getFails) THEN StoreGet(k).value ELSE @,
                 ![p].vraised = @ \/ (Validated(k, getFails) /\ cfg.validator = "raise"),
                 ![p].validatorGot = IF Validated(k, getFails) THEN args[p] ELSE @,
                 ![p].vcalls = IF Validated(k, getFails) THEN @ + 1 ELSE @,
                 ![p].vtotal = IF Validated(k, getFails) THEN @ + 1 ELSE @]
           /\ IF cached_result.exc # ""
              THEN /\ End(p, Raised(cached_result.exc))
                   /\ UNCHANGED deadline
              ELSE IF Hit(k, getFails)
              THEN /\ End(p, Returned(cached_result.value))
                   /\ UNCHANGED deadline
              ELSE /\ pc' = [pc EXCEPT ![p] = AfterMiss(pc[p])]
                   /\ UNCHANGED <<ret, first>>
                   /\ deadline' = IF pc[p] = "lookup" /\ cfg.maxWait > 0
                                  THEN [deadline EXCEPT ![p] = now + cfg.maxWait]
                                  ELSE deadline
  /\ UNCHANGED <<cfg, hk, mgmt, now, entries, locks, args, have_lock, wakeAt, result,
                 pending, ncalls, count>>

\* wrapper, line 169: the test of the while loop; lines 185-186 when it fails
LoopTest(p) ==
  /\ pc[p] = "loop"
  /\ IF now < deadline[p]
     THEN /\ pc' = [pc EXCEPT ![p] = "poll"]
          /\ hist' = hist
     ELSE /\ pc' = [pc EXCEPT ![p] = "final"]
          /\ hist' = [hist EXCEPT ![p].timedOut = TRUE]
  /\ UNCHANGED <<cfg, hk, mgmt, now, entries, locks, args, have_lock, deadline, wakeAt,
                 result, pending, ret, ncalls, count, first>>

\* the SET NX with a bug: its exception is taken for an acquisition
Acquired_DespiteError(k, setFails) == setFails \/ ~Live(locks[k])

\* wrapper, lines 174-178: acquired, the result of SET NX, which sets the key
\* only if it is absent; False when the SET raises
Acquired(k, setFails) == ~setFails /\ ~Live(locks[k])

\* where a caller goes on after it acquired the lock, with a bug: it looks
\* the entry up once more
AfterAcquire_Recheck == "final"

\* wrapper, lines 179-181 and 185-191: after have_lock = True and break, the
\* final lookup is skipped and func is called
AfterAcquire == "call"

\* wrapper, lines 174-183: SET lock_key b"1" NX EX lock_ttl
TryLock(p) ==
  /\ pc[p] = "trylock"
  /\ \E setFails \in StoreFailures :
       LET k == CacheKey(args[p])
           acquired == Acquired(k, setFails)
       IN  /\ hist' = [hist EXCEPT ![p].storeErr = @ \/ setFails,
                                   ![p].acquired = @ \/ acquired,
                                   ![p].lastLock = IF setFails THEN "error"
                                                   ELSE IF Live(locks[k]) THEN "busy"
                                                   ELSE "acquired",
                                   ![p].sleeps = IF acquired THEN @ ELSE @ + 1]
           /\ IF acquired
              THEN /\ locks' = [locks EXCEPT ![k] =
                        [kind |-> "lock", owner |-> p, exp |-> At(now + LockTtl * 1000)]]
                   /\ have_lock' = [have_lock EXCEPT ![p] = TRUE]
                   /\ pc' = [pc EXCEPT ![p] = AfterAcquire]
                   /\ wakeAt' = wakeAt
              ELSE /\ locks' = locks
                   /\ have_lock' = have_lock
                   /\ pc' = [pc EXCEPT ![p] = "sleep"]
                   /\ wakeAt' = [wakeAt EXCEPT ![p] = now + EffectiveCheckInterval]
  /\ UNCHANGED <<cfg, hk, mgmt, now, entries, args, deadline, result, pending, ret,
                 ncalls, count, first>>

\* wrapper, line 183: time.sleep(effective_check_interval) returns
Wake(p) ==
  /\ pc[p] = "sleep"
  /\ now >= wakeAt[p]
  /\ pc' = [pc EXCEPT ![p] = "loop"]
  /\ UNCHANGED <<cfg, hk, mgmt, now, entries, locks, args, have_lock, deadline, wakeAt,
                 result, pending, ret, ncalls, count, first, hist>>

\* wrapper, lines 190-214: func(*args, **kwargs) runs, and returns or raises;
\* each invocation that returns a value returns a new one (the number of the
\* invocation), so that a fresh result differs from every stored one
Invoke(p) ==
  /\ pc[p] = "call"
  /\ count' = count + 1
  /\ \E outcome \in cfg.func :
       /\ hist' = [hist EXCEPT
             ![p].invoked = IF have_lock[p] THEN "locked" ELSE "lockless",
             ![p].fraised = (outcome = "raise"),
             ![p].funcGot = args[p]]
       /\ IF outcome = "raise"
          THEN /\ result' = result
               /\ EndWith(p, Raised("FuncError"))
          ELSE LET v == IF outcome = "none" THEN None ELSE Val(count')
               IN  /\ result' = [result EXCEPT ![p] = v]
                   /\ IF SkipsStorage
                      THEN EndWith(p, Returned(v))
                      ELSE IF cfg.ttl.kind = "nonfinite"
                      THEN /\ End(p, Raised("OverflowError"))
                           /\ pending' = pending
                      ELSE /\ pc' = [pc EXCEPT ![p] = "store"]
                           /\ UNCHANGED <<ret, pending, first>>
  /\ UNCHANGED <<cfg, hk, mgmt, now, entries, locks, args, have_lock, deadline, wakeAt,
                 ncalls>>

StoreExc_SerializerUnchecked(setFails) == IF setFails THEN "StoreError" ELSE ""

\* wrapper, lines 222-229: what the try block raises ("" when nothing): the
\* serializer's exception, the TypeError for a non-bytes result, or the SET's
StoreExc(setFails) ==
  IF cfg.serializer = "raise" THEN "SerializerError"
  ELSE IF cfg.serializer = "nonbytes" THEN "TypeError"
  ELSE IF setFails THEN "StoreError"
  ELSE ""

\* the SET of the entry with a bug: the key is set only if it is absent
SetEntry_IfAbsent(k, payload) ==
  IF Live(entries[k]) THEN entries ELSE [entries EXCEPT ![k] = payload]

\* the SET of the entry with a bug: it is not carried out before the wrapper
\* goes on to the DELETE of the lock key
SetEntry_NotYet(k, payload) == entries

\* wrapper, line 229: self.client.set(cache_key, serialized, **ttl_kwargs), a
\* plain SET
SetEntry(k, payload) == [entries EXCEPT ![k] = payload]

\* wrapper, lines 216-232: serializer(cache_payload), then SET cache_key
Store(p) ==
  /\ pc[p] = "store"
  /\ \E setFails \in StoreFailures :
       LET k == CacheKey(args[p])
           exc == StoreExc(setFails)
       IN  /\ (setFails => cfg.serializer = "bytes")
           /\ entries' = IF exc = "" THEN SetEntry(k, CachePayload(p))
                                     ELSE entries
           /\ hist' = [hist EXCEPT ![p].storeErr = @ \/ setFails,
                                   ![p].wrote = (exc = ""),
                                   ![p].serErr = (cfg.serializer # "bytes")]
           /\ IF exc # "" /\ ~cfg.ive
              THEN EndWith(p, Raised(exc))
              ELSE EndWith(p, Returned(result[p]))
  /\ UNCHANGED <<cfg, hk, mgmt, now, locks, args, have_lock, deadline, wakeAt, result,
                 ncalls, count>>

\* wrapper, lines 193-198, 204-209 and 233-238: DELETE lock_key, whose
\* exception is swallowed, and then the return or raise it stood before
Unlock(p) ==
  /\ pc[p] = "unlock"
  /\ \E delFails \in StoreFailures :
       LET k == CacheKey(args[p])
       IN  /\ locks' = IF delFails THEN locks ELSE [locks EXCEPT ![k] = Absent]
           /\ hist' = [hist EXCEPT
                 ![p].storeErr = @ \/ delFails,
                 ![p].deleted = TRUE,
                 ![p].foreign = ~delFails /\ Live(locks[k]) /\ locks[k].owner # p]
  /\ End(p, pending[p])
  /\ pending' = [pending EXCEPT ![p] = NotEnded]
  /\ UNCHANGED <<cfg, hk, mgmt, now, entries, args, have_lock, deadline, wakeAt, result,
                 ncalls, count>>

\* time passes, and the store drops the keys whose expiry is reached
Tick ==
  /\ now < MaxTicks * TickMs
  /\ now' = now + TickMs
  /\ entries' = [k \in Keys |->
       IF entries[k] # Absent /\ entries[k].exp # NoExpiry /\ entries[k].exp[1] <= now'
       THEN Absent ELSE entries[k]]
  /\ locks' = [k \in Keys |->
       IF locks[k] # Absent /\ locks[k].exp[1] <= now' THEN Absent ELSE locks[k]]
  /\ UNCHANGED <<cfg, hk, mgmt, pc, args, have_lock, deadline, wakeAt, result, pending,
                 ret, ncalls, count, first, hist>>

\* time passes beyond the horizon of Tick while a caller sleeps
Elapse ==
  /\ now >= MaxTicks * TickMs
  /\ \E p \in Callers : pc[p] = "sleep" /\ now < wakeAt[p]
  /\ now' = now + TickMs
  /\ entries' = [k \in Keys |->
       IF entries[k] # Absent /\ entries[k].exp # NoExpiry /\ entries[k].exp[1] <= now'
       THEN Absent ELSE entries[k]]
  /\ locks' = [k \in Keys |->
       IF locks[k] # Absent /\ locks[k].exp[1] <= now' THEN Absent ELSE locks[k]]
  /\ UNCHANGED <<cfg, hk, mgmt, pc, args, have_lock, deadline, wakeAt, result, pending,
                 ret, ncalls, count, first, hist>>

Next ==
  \/ \E p \in Callers :
       \/ Begin(p)
       \/ Lookup(p)
       \/ LoopTest(p)
       \/ TryLock(p)
       \/ Wake(p)
       \/ Invoke(p)
       \/ Store(p)
       \/ Unlock(p)
  \/ Tick

\* the attributes callers use on the wrapped function
Attributes == {"is_cached", "invalidate", "invalidate_all", "cache_key_for"}

\* decorator, lines 105-242: what it returns is wrapper, a plain function to
\* which functools.wraps copied the attributes of func and nothing else was
\* attached; a caller that is not inside a call evaluates target.<attribute>
\* for some arguments, which raises AttributeError before any store operation
Use(p) ==
  /\ pc[p] \in {"idle", "ended"}
  /\ p \in cfg.callers
  /\ \E op \in Attributes, c \in cfg.argsOf :
       mgmt' = [mgmt EXCEPT ![p] = [op |-> op, call |-> c, kind |-> "raise",
                                    value |-> None, exc |-> "AttributeError"]]
  /\ UNCHANGED <<cfg, hk, now, entries, locks, pc, args, have_lock, deadline, wakeAt,
                 result, pending, ret, ncalls, count, first, hist>>

\* calls of the wrapped function, with a clock that goes on while callers wait
NextWait ==
  \/ Next
  \/ Elapse

\* calls of the wrapped function and uses of its attributes
NextUse ==
  \/ Next
  \/ \E p \in Callers : Use(p)

\* the study of hash_key: the input drawn (drawn), the input as it is now
\* (args, kwargs), how it differs from the one drawn (how), what hash_key
\* returned for the input drawn (ref) and for the input as it is now (key), and
\* the calls made on the input as it is now (calls)
NoKey == <<>>
NoInput ==
  [drawn |-> <<>>, args |-> PyTuple(<<>>), kwargs |-> PyDict(<<>>), how |-> "none",
   ref |-> NoKey, key |-> NoKey, calls |-> 0]
Drawn(in) ==
  [drawn |-> <<in.args, in.kwargs>>, args |-> in.args, kwargs |-> in.kwargs,
   how |-> "drawn", ref |-> NoKey, key |-> NoKey, calls |-> 0]

\* hash_key(args, kwargs) is called, lines 62-70
HashKeyCall ==
  /\ hk.how # "none"
  /\ hk.calls < MaxRepeats
  /\ LET key == HashKey(hk.args, hk.kwargs)
     IN  hk' = [hk EXCEPT !.key = key,
                          !.ref = IF hk.how = "drawn" /\ hk.calls = 0 THEN key ELSE @,
                          !.calls = @ + 1]
  /\ UNCHANGED cacheVars

\* the caller builds the same arguments with the keys of some dicts inserted
\* in another order
Reorder ==
  /\ hk.ref # NoKey
  /\ \E a \in Reorderings(hk.args), k \in Reorderings(hk.kwargs) :
       /\ <<a, k>> # <<hk.args, hk.kwargs>>
       /\ hk' = [hk EXCEPT !.args = a, !.kwargs = k,
                           !.how = IF @ = "permuted" THEN @ ELSE "reordered",
                           !.key = NoKey, !.calls = 0]
  /\ UNCHANGED cacheVars

\* the caller builds the arguments with the items of one list or tuple in
\* another order
Permute ==
  /\ hk.ref # NoKey
  /\ hk.how \in {"drawn", "reordered"}
  /\ \E in \in {<<a, hk.kwargs>> : a \in Permutings(hk.args)}
               \cup {<<hk.args, k>> : k \in Permutings(hk.kwargs)} :
       hk' = [hk EXCEPT !.args = in[1], !.kwargs = in[2], !.how = "permuted",
                        !.key = NoKey, !.calls = 0]
  /\ UNCHANGED cacheVars

NextKey == HashKeyCall \/ Reorder \/ Permute

(***************************************************************************)
(* Configurations and specifications.                                       *)
(***************************************************************************)
Config(callers, argsOf, ignore, maxWait, ttl, validator, ive, serializer, func, flaky) ==
  [prefix |-> "rc", namespace |-> "ns", ignore_positionals |-> ignore,
   ignore_kw |-> {}, stored |-> "", checkInterval |-> CheckIntervalMs,
   callers |-> callers, argsOf |-> argsOf, maxWait |-> maxWait, ttl |-> ttl,
   validator |-> validator, ive |-> ive, serializer |-> serializer,
   func |-> func, flaky |-> flaky]

InitCache(configs) ==
  /\ cfg \in configs
  /\ now = 0
  /\ entries = [k \in Keys |-> IF cfg.stored = "" THEN Absent
                                                   ELSE StoredBytes(cfg.stored)]
  /\ locks = [k \in Keys |-> Absent]
  /\ pc = [p \in Callers |-> "idle"]
  /\ args = [p \in Callers |-> NoCall]
  /\ have_lock = [p \in Callers |-> FALSE]
  /\ deadline = [p \in Callers |-> 0]
  /\ wakeAt = [p \in Callers |-> 0]
  /\ result = [p \in Callers |-> None]
  /\ pending = [p \in Callers |-> NotEnded]
  /\ ret = [p \in Callers |-> NotEnded]
  /\ ncalls = [p \in Callers |-> 0]
  /\ count = 0
  /\ first = [k \in Keys |-> None]
  /\ hist = [p \in Callers |-> NoHist]
  /\ mgmt = [p \in Callers |-> NoUse]

InitWith(configs) ==
  /\ InitCache(configs)
  /\ hk = NoInput

Validators == {"none", "true", "false", "raise"}
Serializers == {"bytes", "nonbytes", "raise"}
Ttls == {TtlNone, TtlNum(-1000000), TtlNum(0), TtlNum(500000), TtlNum(1000000), TtlNonFinite}
FuncOutcomes == {"value", "none", "raise"}

\* one caller, calling again and again with the same arguments, under every
\* configuration
ErrConfigs ==
  {Config({"c1"}, {Call("f", <<1, 1>>, {})}, {}, w, t, v, i, s, FuncOutcomes, f) :
     w \in {0, 500}, t \in Ttls, v \in Validators, i \in BOOLEAN,
     s \in Serializers, f \in BOOLEAN}

\* one caller, calling again and again with arguments of two cache keys and
\* with arguments that differ at an ignored index only
KeyConfigs ==
  {Config({"c1"}, {Call("f", <<1, 1>>, {}), Call("f", <<2, 1>>, {}), Call("f", <<1, 2>>, {})},
          ig, 0, t, v, TRUE, "bytes", FuncOutcomes, FALSE) :
     ig \in {{}, {0}}, t \in {TtlNone, TtlNum(1000000)}, v \in {"none", "true"}}

\* one caller, calling again and again with keyword arguments that differ at
\* an ignored name, at a name that is not ignored, or not at all
KwConfigs ==
  {[Config({"c1"}, {Call("f", <<5>>, {<<"noise", 1>>, <<"scale", 2>>}),
                    Call("f", <<5>>, {<<"noise", 2>>, <<"scale", 2>>}),
                    Call("f", <<5>>, {<<"noise", 1>>, <<"scale", 3>>})},
           ig, 0, t, "none", TRUE, "bytes", FuncOutcomes, FALSE)
      EXCEPT !.ignore_kw = ik] :
     ig \in {{}, {0}}, ik \in {{}, {"noise"}}, t \in {TtlNone, TtlNum(1000000)}}

SeqConfigs == ErrConfigs \cup KeyConfigs \cup KwConfigs

\* two callers with the same arguments
ConcConfigs ==
  {Config({"c1", "c2"}, {Call("f", <<1, 1>>, {})}, {}, w, TtlNone, "none", TRUE, "bytes", fn, FALSE) :
     w \in {500, 1000}, fn \in {{"value"}, FuncOutcomes}}

\* the forms of bytes found under a cache key
Forms == {"corrupt", "nondict", "novalue", "entry"}

\* one caller, calling again and again with the same arguments, on a store
\* that holds bytes under the cache key from the start
StoredConfigs ==
  {[Config({"c1"}, {Call("f", <<1, 1>>, {})}, {}, w, t, v, i, "bytes", FuncOutcomes, f)
      EXCEPT !.stored = form] :
     w \in {0, 500}, t \in {TtlNone, TtlNum(500000)}, v \in Validators,
     i \in BOOLEAN, f \in BOOLEAN, form \in Forms}

Init == InitWith(SeqConfigs)
Spec == Init /\ [][Next]_vars

InitConc == InitWith(ConcConfigs)
SpecConc == InitConc /\ [][Next]_vars

\* one caller, calling two functions decorated through the same RedisCache
\* with the same arguments, with and without an explicit namespace
FuncConfigs ==
  {[Config({"c1"}, {Call("f", <<5>>, {}), Call("g", <<5>>, {})},
           {}, w, TtlNone, "none", TRUE, "bytes", fo, fl)
      EXCEPT !.namespace = ns] :
     w \in {0, 500}, fo \in {{"value"}, FuncOutcomes}, fl \in BOOLEAN,
     ns \in {"", "custom"}}

InitFuncs == InitWith(FuncConfigs)
SpecFuncs == InitFuncs /\ [][Next]_vars

\* one caller, calling a function with arguments of two cache keys and using
\* the function's attributes between the calls
UseConfigs ==
  {Config({"c1"}, {Call("f", <<5>>, {}), Call("f", <<6>>, {})},
          {}, w, TtlNone, "none", TRUE, "bytes", fo, fl) :
     w \in {0, 500}, fo \in {{"value"}, FuncOutcomes}, fl \in BOOLEAN}

InitUse == InitWith(UseConfigs)
SpecUse == InitUse /\ [][NextUse]_vars

\* hash_key on its own: no call of a wrapped function is made
InitKey ==
  /\ InitCache({Config({}, {}, {}, 0, TtlNone, "none", TRUE, "bytes", {}, FALSE)})
  /\ \E in \in HashInputs : hk = Drawn(in)
SpecKey == InitKey /\ [][NextKey]_vars

\* two callers with the same arguments and wait times of which one is not a
\* whole number of seconds, and one caller on a store that can fail
WaitConfigs ==
  {Config({"c1", "c2"}, {Call("f", <<1, 1>>, {})}, {}, w, TtlNone, "none", TRUE, "bytes",
          {"value", "raise"}, FALSE) : w \in {500, 1500}}
  \cup {Config({"c1"}, {Call("f", <<1, 1>>, {})}, {}, w, t, "none", TRUE, "bytes",
                {"value", "raise"}, TRUE) : w \in {500, 1500}, t \in {TtlNone, TtlNum(500000)}}

InitWait == InitWith(WaitConfigs)
SpecWait == InitWait /\ [][NextWait]_vars

\* the same, where every step a caller can take is taken in the end (its
\* thread is scheduled, and the store operations and the wrapped function
\* terminate) and the clock goes on; no caller has to start a call
Fairness ==
  /\ \A p \in Callers :
       /\ WF_vars(Lookup(p)) /\ WF_vars(LoopTest(p)) /\ WF_vars(TryLock(p))
       /\ WF_vars(Wake(p)) /\ WF_vars(Invoke(p)) /\ WF_vars(Store(p))
       /\ WF_vars(Unlock(p))
  /\ WF_vars(Tick) /\ WF_vars(Elapse)
SpecWaitFair == SpecWait /\ Fairness

\* two callers with the same arguments, with and without single-flight (a
\* wait time that is negative, zero or positive), on every exit path of the
\* compute step: the function returns or raises, ttl is absent, 0 or 0.5 s,
\* the serializer works or raises
FlightConfigs ==
  {Config({"c1", "c2"}, {Call("f", <<1, 1>>, {})}, {}, w, t, "none", i, s,
          FuncOutcomes, FALSE) :
     w \in {-500, 0, 500}, t \in {TtlNone, TtlNum(0), TtlNum(500000)}, i \in BOOLEAN,
     s \in {"bytes", "raise"}}

InitFlight == InitWith(FlightConfigs)
SpecFlight == InitFlight /\ [][Next]_vars

\* one caller, calling again and again with the same arguments, with no ttl,
\* ttls of whole seconds and ttls with a fraction, of which one is below a
\* millisecond
TtlConfigs ==
  {Config({"c1"}, {Call("f", <<1, 1>>, {})}, {}, w, t, "none", TRUE, "bytes", {"value"}, f) :
     w \in {0, 500}, f \in BOOLEAN,
     t \in {TtlNone, TtlNum(500), TtlNum(500000), TtlNum(1000000), TtlNum(1500000),
            TtlNum(2000000)}}

InitTtl == InitWith(TtlConfigs)
SpecTtl == InitTtl /\ [][Next]_vars

InitStored == InitWith(StoredConfigs)
SpecStored == InitStored /\ [][Next]_vars

(***************************************************************************)
(* The claims.                                                              *)
(***************************************************************************)
KeyOf(p) == CacheKey(args[p])
Ended(p) == pc[p] = "ended"

\* the configuration stores results: ttl is None or finite and > 0, and the
\* serializer returns bytes
Storing ==
  /\ cfg.serializer = "bytes"
  /\ cfg.ttl.kind = "none" \/ (cfg.ttl.kind = "num" /\ cfg.ttl.us > 0)

\* C1: single-flight.  Two callers call the wrapped function once each with
\* the same arguments, no entry in the store, concurrent_max_wait_time > 0 and
\* a function that returns a value: when both calls have ended, the function
\* was invoked exactly once and both returned the same value.  (Stated for the
\* runs in which no caller's deadline passed, where the documented fallback of
\* computing without the lock does not apply.)
C1_SingleFlight ==
  ( /\ cfg.callers = Callers
    /\ cfg.maxWait > 0
    /\ cfg.func = {"value"}
    /\ \A p \in Callers : ncalls[p] = 1 /\ Ended(p) /\ ~hist[p].timedOut )
  => (count = 1 /\ ret["c1"] = ret["c2"])

\* C2: ordering guarantee for racing calls.  When both of two callers with
\* the same cache key and concurrent_max_wait_time > 0 invoke the wrapped
\* function, at least one of them did so without the lock, after its deadline.
C2_OneLockedComputation ==
  ( /\ cfg.callers = Callers
    /\ cfg.maxWait > 0
    /\ cfg.func = {"value"}
    /\ \A p \in Callers : ncalls[p] = 1 /\ hist[p].invoked # "no" )
  => \E p \in Callers : hist[p].invoked = "lockless" /\ hist[p].timedOut

\* C3: strict lock ownership.  No caller's DELETE of the lock key removes a
\* lock entry that another caller's SET NX created.
C3_StrictLockOwnership == \A p \in Callers : ~hist[p].foreign

\* C4: lock release on every exit path.  A call that acquired the lock has
\* issued a DELETE of the lock key when it returns or raises.
C4_LockReleasedOnEveryExit ==
  \A p \in Callers : (Ended(p) /\ hist[p].acquired) => hist[p].deleted

\* C5: basic memoization.  With the default configuration (no ttl, no
\* validator, concurrent_max_wait_time 0, the default serializer) and a
\* working store, a call made after an earlier call for the same cache key
\* returned v (not None) returns v without invoking the wrapped function, and
\* the store then holds the entry of that key and no lock key for it.
C5_BasicMemoization ==
  \A p \in Callers :
    ( /\ cfg.maxWait = 0 /\ cfg.ttl = TtlNone /\ cfg.validator = "none"
      /\ cfg.serializer = "bytes" /\ cfg.ive /\ ~cfg.flaky
      /\ Ended(p) /\ hist[p].prior # None )
    => ( /\ ret[p] = Returned(hist[p].prior)
         /\ hist[p].invoked = "no"
         /\ Live(entries[KeyOf(p)])
         /\ entries[KeyOf(p)].value = hist[p].prior
         /\ ~Live(locks[KeyOf(p)]) )

\* C5's case: a second call for a key has returned the first call's value
C5_Witness ==
  \E p \in Callers :
    /\ cfg.maxWait = 0 /\ cfg.ttl = TtlNone /\ cfg.validator = "none"
    /\ cfg.serializer = "bytes" /\ cfg.ive /\ ~cfg.flaky
    /\ cfg.ignore_positionals = {}
    /\ Ended(p) /\ hist[p].prior # None /\ ret[p] = Returned(hist[p].prior)
    /\ count = 1

\* C6: fast path.  A call whose lookup finds a usable entry that the validator
\* (if any) accepts returns that entry's value, whatever the value is, and
\* does nothing else: it does not invoke the wrapped function, does not set or
\* delete the lock key and does not write the entry.
C6_FastPath ==
  \A p \in Callers :
    hist[p].accepted
    => ( /\ Ended(p)
         /\ ret[p] = Returned(hist[p].seen)
         /\ hist[p].invoked = "no"
         /\ ~hist[p].acquired /\ ~hist[p].deleted /\ ~hist[p].wrote )

\* C7: computation failure.  When the wrapped function raises, the call ends
\* with that exception, after a DELETE of the lock key if it had acquired the
\* lock, and no step of the call from the invocation on changes the store's
\* entries.
C7_ComputationFailure ==
  /\ [](\A p \in Callers :
          (Ended(p) /\ hist[p].fraised)
          => ( /\ ret[p] = Raised("FuncError")
               /\ hist[p].acquired => hist[p].deleted
               /\ ~hist[p].wrote ))
  /\ [][\A p \in Callers :
          (hist'[p].fraised /\ pc'[p] # pc[p]) => entries' = entries]_vars

\* C7's case: the function raised in a call that held the lock, and the call
\* has ended
C7_Witness ==
  \E p \in Callers :
    /\ Ended(p) /\ hist[p].fraised /\ hist[p].acquired /\ hist[p].deleted
    /\ ret[p] = Raised("FuncError")
    /\ \E k \in Keys : Live(entries[k])

\* C8: store unavailability is never fatal.  No call ends by raising the
\* error of a store operation.
C8_StoreErrorsNeverFatal ==
  \A p \in Callers : Ended(p) => ret[p].exc # "StoreError"

\* C9: validator gate (false).  With a validator that returns false for every
\* entry, every call invokes the wrapped function, a call that returns returns
\* the result of its own invocation, and, where the configuration stores
\* results and the store works, the call writes the entry, with that result.
C9_ValidatorFalse ==
  /\ [](\A p \in Callers :
          (cfg.validator = "false" /\ Ended(p))
          => ( /\ hist[p].invoked # "no"
               /\ ret[p].kind = "return" => ret[p].value = result[p]
               /\ (Storing /\ ~hist[p].storeErr /\ ret[p].kind = "return")
                  => hist[p].wrote ))
  /\ [][\A p \in Callers :
          (cfg.validator = "false" /\ pc[p] = "store" /\ hist'[p].wrote)
          => ( /\ entries'[KeyOf(p)].form = "entry"
               /\ entries'[KeyOf(p)].value = result[p] )]_vars

\* C9's case: a call found a usable entry stored by an earlier call, invoked
\* the function all the same, and overwrote the entry
C9_Witness ==
  \E p \in Callers :
    /\ cfg.validator = "false" /\ Ended(p) /\ ncalls[p] = 2 /\ count = 2
    /\ hist[p].wrote /\ ret[p] = Returned(Val(2))
    /\ Live(entries[KeyOf(p)]) /\ entries[KeyOf(p)].value = Val(2)

\* C10: validator failure policy.  When the validator raises on a usable
\* entry: with ignore_validation_error the call goes on to invoke the wrapped
\* function and a call that returns returns the result of that invocation;
\* without it the call ends at once with the validator's exception, having
\* neither invoked the function nor written the entry nor set or deleted the
\* lock key.
C10_ValidatorRaises ==
  \A p \in Callers :
    hist[p].vraised
    => IF cfg.ive
       THEN Ended(p) => ( /\ hist[p].invoked # "no"
                          /\ ret[p].kind = "return" => ret[p].value = result[p] )
       ELSE /\ Ended(p)
            /\ ret[p] = Raised("ValidatorError")
            /\ hist[p].invoked = "no"
            /\ ~hist[p].wrote /\ ~hist[p].acquired /\ ~hist[p].deleted

\* C10's case: the validator raised on the entry of an earlier call and its
\* exception ended the call
C10_Witness ==
  \E p \in Callers :
    /\ ~cfg.ive /\ hist[p].vraised /\ Ended(p)
    /\ ret[p] = Raised("ValidatorError") /\ count = 1
    /\ Live(entries[KeyOf(p)])

\* C11: serializer failure.  When the serializer raises or returns something
\* that is not bytes, the step that serializes and stores writes nothing: no
\* entry is ever in the store, so every call invokes the wrapped function.
\* With ignore_validation_error true the call returns the result it computed;
\* with ignore_validation_error false it raises the serializer's error (the
\* TypeError for a non-bytes result), after the function ran.
C11_SerializerFailure ==
  /\ [](cfg.serializer # "bytes" =>
         /\ \A k \in Keys : entries[k] = Absent
         /\ \A p \in Callers :
              /\ Ended(p) => hist[p].invoked # "no"
              /\ (Ended(p) /\ hist[p].serErr /\ cfg.ive) => ret[p] = Returned(result[p])
              /\ (Ended(p) /\ hist[p].serErr /\ ~cfg.ive) =>
                    ret[p] = Raised(IF cfg.serializer = "raise" THEN "SerializerError"
                                                               ELSE "TypeError"))
  /\ [][\A p \in Callers :
          (pc[p] = "store" /\ pc'[p] # "store" /\ cfg.serializer # "bytes")
          => (entries' = entries /\ ~hist'[p].wrote)]_vars

C11_Witness ==
  \E p \in Callers :
    /\ Ended(p) /\ hist[p].serErr /\ ncalls[p] = 2
    /\ hist[p].acquired /\ hist[p].deleted
    /\ ret[p].kind = (IF cfg.ive THEN "return" ELSE "raise")
    /\ cfg.ive /\ result[p] # None

\* C12: deserializer failure.  A lookup whose GET returns bytes on which the
\* deserializer raises is a miss when ignore_validation_error is true: the
\* call goes on, invokes the wrapped function, and what it stores replaces the
\* corrupt bytes.  When ignore_validation_error is false the lookup's
\* exception reaches the caller and the function is not invoked.  (Stated for
\* a store that does not fail.)
C12_DeserializerFailure ==
  /\ []((cfg.stored = "corrupt" /\ ~cfg.flaky) =>
         /\ ~cfg.ive => count = 0
         /\ \A p \in Callers :
              /\ (Ended(p) /\ ~cfg.ive) =>
                    (ret[p] = Raised("DeserializerError") /\ hist[p].invoked = "no")
              /\ (Ended(p) /\ cfg.ive /\ ncalls[p] = 1) => hist[p].invoked # "no"
              /\ (Ended(p) /\ cfg.ive /\ hist[p].wrote) =>
                    (entries[KeyOf(p)] = Absent \/ entries[KeyOf(p)].form = "entry"))
  /\ [][\A p \in Callers :
          ( /\ pc[p] \in {"lookup", "poll", "final"} /\ pc'[p] # pc[p]
            /\ ~cfg.flaky
            /\ Live(entries[KeyOf(p)]) /\ entries[KeyOf(p)].form = "corrupt" )
          => IF cfg.ive THEN pc'[p] = AfterMiss(pc[p])
             ELSE pc'[p] = "ended" /\ ret'[p] = Raised("DeserializerError")]_vars

C12_Witness ==
  \E p \in Callers :
    /\ cfg.stored = "corrupt" /\ ~cfg.flaky /\ cfg.ive
    /\ Ended(p) /\ ncalls[p] = 1 /\ hist[p].wrote /\ hist[p].invoked # "no"
    /\ entries[KeyOf(p)] # Absent /\ entries[KeyOf(p)].form = "entry"
    /\ entries[KeyOf(p)].value = ret[p].value /\ ret[p].value # None

\* C13: non-positive ttl.  With a ttl that is given and <= 0 and a store that
\* starts empty, no call writes an entry and no entry is ever in the store;
\* every call invokes the wrapped function and, when it returns, returns the
\* result of its own invocation; a call that acquired the lock has issued the
\* DELETE of the lock key when it ends; and on a store whose operations do not
\* fail, the store holds neither an entry nor a lock when a call has ended.
C13_NonPositiveTtl ==
  (cfg.ttl.kind = "num" /\ cfg.ttl.us <= 0) =>
    /\ \A k \in Keys : entries[k] = Absent
    /\ \A p \in Callers :
         /\ ~hist[p].wrote
         /\ pc[p] # "store"
         /\ Ended(p) =>
              /\ hist[p].invoked # "no"
              /\ hist[p].acquired => hist[p].deleted
              /\ ret[p].kind = "return" => ret[p].value = result[p]
              /\ (ret[p].kind = "return" /\ ret[p].value # None) => ret[p].value = Val(count)
              /\ ~cfg.flaky => \A k \in Keys : locks[k] = Absent

C13_Witness ==
  \E p \in Callers :
    /\ cfg.ttl.kind = "num" /\ cfg.ttl.us < 0 /\ cfg.maxWait > 0
    /\ Ended(p) /\ ncalls[p] = 2 /\ ret[p] = Returned(Val(2))
    /\ hist[p].acquired /\ hist[p].deleted /\ ~cfg.flaky

\* the configuration has a ttl > 0, no validator, a serializer that returns
\* bytes and a store that does not fail
PositiveTtl ==
  /\ cfg.ttl.kind = "num" /\ cfg.ttl.us > 0
  /\ cfg.validator = "none" /\ cfg.serializer = "bytes" /\ ~cfg.flaky

\* C14: ttl expiry.  With ttl = t > 0, the entry a call stores expires t after
\* the write; a call whose first lookup finds the entry in the store returns
\* the entry's value and does not invoke the wrapped function; a call whose
\* first lookup finds that the entry has expired goes on to invoke it.
C14_TtlExpiry ==
  [][\A p \in Callers :
       PositiveTtl =>
         /\ (pc[p] = "store" /\ pc'[p] # "store") =>
               entries'[KeyOf(p)].exp = At(now + cfg.ttl.us \div 1000)
         /\ (pc[p] = "lookup" /\ pc'[p] # "lookup") =>
               IF Live(entries[KeyOf(p)])
               THEN /\ pc'[p] = "ended"
                    /\ ret'[p] = Returned(entries[KeyOf(p)].value)
                    /\ count' = count
               ELSE pc'[p] = AfterMiss("lookup")]_vars

\* two calls of one function whose arguments differ only at positional
\* indices in ignore_positionals or at keyword names in ignore_kw
DifferOnlyIgnored(a, b) ==
  /\ a.fn = b.fn
  /\ Len(a.pos) = Len(b.pos)
  /\ \A i \in 1..Len(a.pos) : (i - 1) \notin cfg.ignore_positionals => a.pos[i] = b.pos[i]
  /\ \A e \in a.kw \cup b.kw : e[1] \notin cfg.ignore_kw => e \in a.kw \cap b.kw

\* C15: ignored parameters.  Two calls whose arguments differ only at ignored
\* positional indices or ignored keyword names have the same cache key, and
\* the second, whose first lookup finds the entry the first stored, returns
\* that entry's value without invoking the wrapped function.  (Stated with no
\* validator and a store that does not fail.)
C15_IgnoredParameters ==
  /\ [](\A a, b \in cfg.argsOf : DifferOnlyIgnored(a, b) => CacheKey(a) = CacheKey(b))
  /\ [][\A p \in Callers :
          ( /\ cfg.validator = "none" /\ ~cfg.flaky
            /\ pc[p] = "lookup" /\ pc'[p] # "lookup"
            /\ Live(entries[KeyOf(p)])
            /\ DifferOnlyIgnored(entries[KeyOf(p)].by, args[p]) )
          => /\ pc'[p] = "ended"
             /\ ret'[p] = Returned(entries[KeyOf(p)].value)
             /\ count' = count]_vars

\* the name a function is known by: its module and qualified name
QualifiedName(fn) == fn

\* C16: key format.  Every entry in the store is under a key of three parts,
\* the prefix, the namespace and the fingerprint, where the namespace is the
\* one given to cache() or, when none is given, the module and qualified name
\* of the function whose result the entry holds.
C16_KeyFormat ==
  \A k \in Keys :
    entries[k] # Absent =>
      /\ Len(k) = 3
      /\ k[1] = cfg.prefix
      /\ k[2] = (IF cfg.namespace # "" THEN cfg.namespace
                                       ELSE QualifiedName(entries[k].by.fn))

\* C17: namespace isolation.  With no namespace given, a call of one function
\* is never served an entry that holds the result of another function, and
\* never writes over such an entry: it invokes its own function and returns
\* that function's result.
C17_NamespaceIsolation ==
  [][\A p \in Callers :
       cfg.namespace = "" =>
         /\ ( /\ pc[p] \in {"lookup", "poll", "final"}
              /\ pc'[p] = "ended" /\ ret'[p].kind = "return" )
            => entries[KeyOf(p)].by.fn = args[p].fn
         /\ ( /\ pc[p] = "store" /\ hist'[p].wrote
              /\ Live(entries[KeyOf(p)]) )
            => entries[KeyOf(p)].by.fn = args[p].fn]_vars

\* the cache keys of a run under which the store holds an entry
Cached == {k \in Keys : Live(entries[k])}

\* C18: invalidation.  When the store holds the entry a call with arguments
\* a stored, is_cached(a) returns true and changes nothing, and invalidate(a)
\* returns 1 and deletes that entry and no other (so that is_cached(a) is then
\* false and the next call with a invokes the wrapped function again).
C18_Invalidation ==
  [][\A p \in Callers :
       LET k == CacheKey(mgmt'[p].call)
       IN  /\ (mgmt'[p] # mgmt[p] /\ mgmt'[p].op = "is_cached" /\ k \in Cached) =>
                 /\ mgmt'[p].kind = "return"
                 /\ mgmt'[p].value = <<TRUE>>
                 /\ entries' = entries
           /\ (mgmt'[p] # mgmt[p] /\ mgmt'[p].op = "invalidate" /\ k \in Cached) =>
                 /\ mgmt'[p].kind = "return"
                 /\ mgmt'[p].value = Val(1)
                 /\ entries' = [entries EXCEPT ![k] = Absent]]_vars

\* C19: invalidate_all.  invalidate_all() deletes every entry stored under
\* the function's namespace and returns how many it deleted, 0 when there
\* were none.
C19_InvalidateAll ==
  [][\A p \in Callers :
       (mgmt'[p] # mgmt[p] /\ mgmt'[p].op = "invalidate_all") =>
         /\ mgmt'[p].kind = "return"
         /\ mgmt'[p].value = Val(Cardinality(Cached))
         /\ entries' = [k \in Keys |-> Absent]]_vars

\* C20: cache_key_for.  cache_key_for(args, kwargs) returns the key under
\* which a call with the same arguments reads and writes its entry.
C20_CacheKeyFor ==
  \A p \in Callers :
    mgmt[p].op = "cache_key_for" =>
      /\ mgmt[p].kind = "return"
      /\ mgmt[p].value = CacheKey(mgmt[p].call)

\* C21: key derivation is deterministic and blind to the insertion order of
\* dicts.  Every call of hash_key on the input drawn, and on any input that
\* differs from it only in the insertion order of the keys of dicts that are
\* not OrderedDicts (inside lists, tuples, dicts and OrderedDicts of args and
\* kwargs, and kwargs itself), returns the same fingerprint.
C21_KeyDeterministic ==
  (hk.how \in {"drawn", "reordered"} /\ hk.calls > 0) => hk.key = hk.ref

C21_Witness ==
  /\ hk.how = "reordered" /\ hk.calls = MaxRepeats /\ hk.key = hk.ref
  /\ hk.args # hk.drawn[1] /\ hk.kwargs # hk.drawn[2]
  /\ hk.args[2][1][1] = "list" /\ Len(hk.args[2][1][2]) = MaxLen
  /\ \A i \in 1..MaxLen : hk.args[2][1][2][i][1] = "dict"

\* C22: key derivation is positional for sequences.  An input in which the
\* items of a list or tuple, at any depth, are in another order than in the
\* input drawn (not equal to it item by item) has another fingerprint.
C22_KeyPositional ==
  (hk.how = "permuted" /\ hk.calls > 0) => hk.key # hk.ref

C22_Witness ==
  /\ hk.how = "permuted" /\ hk.calls > 0 /\ hk.key # hk.ref
  /\ hk.args[2][1][1] = "dict" /\ Len(hk.args[2][1][2]) > 0
  /\ hk.args[2][1][2][1][2][1] = "list"
  /\ hk.args # hk.drawn[1]

\* C23: sole computer.  For a cache key at most one caller is between its
\* successful SET NX of the lock key and its DELETE of it, however long the
\* computation of the wrapped function takes.
C23_SoleComputer ==
  \A p, q \in Callers :
    (p # q /\ have_lock[p] /\ have_lock[q] /\ pc[p] # "ended" /\ pc[q] # "ended")
    => KeyOf(p) # KeyOf(q)

\* C24: deadline fallback.  With concurrent_max_wait_time > 0 (no validator,
\* a store that does not fail), a caller that holds no lock invokes the
\* wrapped function only after its deadline has passed and its final lookup
\* found no entry; it then stores the result and returns it.  A final lookup
\* that finds an entry returns the entry's value, and the function is not
\* invoked.
C24_DeadlineFallback ==
  [][\A p \in Callers :
       (cfg.maxWait > 0 /\ cfg.validator = "none" /\ ~cfg.flaky) =>
         /\ (pc[p] = "call" /\ pc'[p] # "call" /\ ~have_lock[p]) =>
               (hist[p].timedOut /\ now >= deadline[p])
         /\ (pc[p] = "final" /\ pc'[p] # "final") =>
               IF Live(entries[KeyOf(p)])
               THEN /\ pc'[p] = "ended"
                    /\ ret'[p] = Returned(entries[KeyOf(p)].value)
                    /\ hist'[p].invoked = "no"
               ELSE pc'[p] = "call"
         /\ (pc[p] = "store" /\ pc'[p] # "store" /\ ~have_lock[p] /\ Storing) =>
               /\ entries'[KeyOf(p)] = CachePayload(p)
               /\ ret'[p] = Returned(result[p])]_vars

\* max(ceil(concurrent_max_wait_time), 1), in whole seconds: the least s >= 1
\* with s seconds not less than the wait time
WholeSeconds ==
  CHOOSE s \in 1..(cfg.maxWait \div 1000 + 1) :
    /\ s * 1000 >= cfg.maxWait
    /\ s = 1 \/ (s - 1) * 1000 < cfg.maxWait

\* C25: lock expiry value.  A lock entry is written only where the store
\* holds none (SET NX), only under the lock key of the writer's cache key, and
\* with an expiry of max(ceil(concurrent_max_wait_time), 1) whole seconds
\* from the write, whatever ttl is.
C25_LockExpiryValue ==
  [][\A k \in Keys :
       (locks'[k] # locks[k] /\ locks'[k] # Absent) =>
         /\ ~Live(locks[k])
         /\ locks'[k].exp = At(now + WholeSeconds * 1000)
         /\ pc[locks'[k].owner] = "trylock" /\ KeyOf(locks'[k].owner) = k]_vars

C25_Witness ==
  \E k \in Keys :
    /\ Live(locks[k]) /\ cfg.maxWait = 1500 /\ cfg.ttl # TtlNone
    /\ locks[k].exp = At(now + 2000)

\* C26: orphaned locks do not outlast waiters.  The lock another caller holds
\* expires no later than the deadline of any caller that is in the polling
\* loop for it.
C26_OrphanedLocks ==
  \A p \in Callers :
    ( /\ pc[p] \in {"loop", "poll", "trylock", "sleep"}
      /\ Live(locks[KeyOf(p)]) /\ locks[KeyOf(p)].owner # p )
    => locks[KeyOf(p)].exp[1] <= deadline[p]

C28_LockErrorSwallowed ==
  /\ [](\A p \in Callers :
          hist[p].lastLock = "error" =>
            /\ ~have_lock[p] /\ ~hist[p].acquired /\ ~hist[p].deleted
            /\ pc[p] \in {"sleep", "loop", "poll", "trylock", "final", "call",
                           "store", "ended"}
            /\ pc[p] \in {"final", "call", "store"} =>
                  (hist[p].timedOut /\ now >= deadline[p])
            /\ hist[p].invoked \in {"no", "lockless"})
  /\ [][\A p \in Callers :
          (pc[p] = "trylock" /\ pc'[p] # "trylock" /\ hist'[p].lastLock = "error") =>
            /\ pc'[p] = "sleep"
            /\ wakeAt'[p] = now + EffectiveCheckInterval
            /\ locks' = locks
            /\ have_lock' = have_lock]_vars

C28_Witness ==
  \E p \in Callers :
    /\ Ended(p) /\ hist[p].lastLock = "error" /\ hist[p].sleeps > 1
    /\ hist[p].invoked = "lockless" /\ hist[p].timedOut
    /\ ~hist[p].deleted /\ ~have_lock[p]

\* C29: malformed payloads.  Bytes that the deserializer turns into something
\* that is not a dict, or into a dict without "value", are a miss whatever
\* ignore_validation_error and the validator are: a lookup that finds them does
\* not raise and does not call the validator, the call goes on as after a
\* miss, invokes the wrapped function, and what it stores replaces them.
C29_MalformedPayload ==
  /\ [](cfg.stored \in {"nondict", "novalue"} =>
         \A p \in Callers :
           /\ (Ended(p) /\ ncalls[p] = 1) =>
                 /\ hist[p].invoked # "no"
                 /\ ~hist[p].vraised /\ ~hist[p].accepted
                 /\ ret[p].exc \notin {"DeserializerError", "ValidatorError"}
           /\ (Ended(p) /\ hist[p].wrote) =>
                 (entries[KeyOf(p)] = Absent \/ entries[KeyOf(p)].form = "entry"))
  /\ [][\A p \in Callers :
          ( /\ pc[p] \in {"lookup", "poll", "final"} /\ pc'[p] # pc[p]
            /\ Live(entries[KeyOf(p)])
            /\ entries[KeyOf(p)].form \in {"nondict", "novalue"} )
          => /\ pc'[p] = AfterMiss(pc[p])
             /\ hist'[p].vraised = hist[p].vraised
             /\ hist'[p].accepted = hist[p].accepted]_vars

C29_Witness ==
  \E p \in Callers :
    /\ cfg.stored = "novalue" /\ cfg.validator = "raise" /\ ~cfg.ive
    /\ Ended(p) /\ ncalls[p] = 1 /\ hist[p].wrote /\ hist[p].invoked # "no"
    /\ entries[KeyOf(p)] # Absent /\ entries[KeyOf(p)].form = "entry"
    /\ entries[KeyOf(p)].value = ret[p].value /\ ret[p].value # None

\* the indices (from 1) of the positional arguments that are not ignored
Kept(pos) == {i \in 1..Len(pos) : (i - 1) \notin cfg.ignore_positionals}

\* s is the filtered snapshot of the call c: the positional arguments of c at
\* the indices that are not ignored, in order, and the keyword arguments of c
\* whose names are not ignored
FilteredSnapshot(c, s) ==
  /\ Len(s.args) = Cardinality(Kept(c.pos))
  /\ \A i \in Kept(c.pos) : s.args[Cardinality({j \in Kept(c.pos) : j <= i})] = c.pos[i]
  /\ s.kwargs = {e \in c.kw : e[1] \notin cfg.ignore_kw}

\* C30: the key serializer is passed the filtered snapshot of the call's
\* arguments, and the cache key is built from what it returns for it; a stored
\* entry's parameters field is the filtered snapshot of the call that stored
\* it; the wrapped function and the validator are passed the arguments of the
\* current call as they are.
C30_FilteredArguments ==
  /\ \A p \in Callers :
       pc[p] # "idle" =>
         /\ FilteredSnapshot(args[p], hist[p].keyGot)
         /\ KeyOf(p)[Len(KeyOf(p))] = KeySerializer(hist[p].keyGot.args, hist[p].keyGot.kwargs)
         /\ hist[p].invoked # "no" => hist[p].funcGot = args[p]
         /\ hist[p].validatorGot \in {NoCall, args[p]}
         /\ (hist[p].accepted /\ cfg.validator # "none") => hist[p].validatorGot = args[p]
  /\ \A k \in Keys :
       (entries[k] # Absent /\ entries[k].by # NoCall) =>
         FilteredSnapshot(entries[k].by, entries[k].parameters)

C30_Witness ==
  \E p \in Callers :
    /\ Ended(p) /\ hist[p].wrote /\ hist[p].funcGot = args[p]
    /\ cfg.ignore_positionals = {0} /\ cfg.ignore_kw = {"noise"}
    /\ hist[p].keyGot.args # args[p].pos /\ hist[p].keyGot.kwargs # args[p].kw
    /\ entries[KeyOf(p)] # Absent /\ entries[KeyOf(p)].by = args[p]
    /\ entries[KeyOf(p)].parameters = hist[p].keyGot

\* C31: no single-flight when concurrent_max_wait_time <= 0.  No call creates
\* or deletes a lock entry, holds the lock, is in the polling loop or sleeps;
\* a lookup that misses is followed by the invocation of the wrapped function,
\* so every call that ended without finding an entry invoked it, without the
\* lock.
C31_NoSingleFlight ==
  /\ [](cfg.maxWait <= 0 =>
         /\ \A k \in Keys : locks[k] = Absent
         /\ \A p \in Callers :
              /\ pc[p] \in {"idle", "lookup", "call", "store", "ended"}
              /\ ~have_lock[p] /\ ~hist[p].acquired /\ ~hist[p].deleted
              /\ hist[p].sleeps = 0 /\ hist[p].lastLock = "" /\ ~hist[p].timedOut
              /\ hist[p].invoked \in {"no", "lockless"}
              /\ (Ended(p) /\ ~hist[p].accepted) => hist[p].invoked = "lockless")
  /\ [][cfg.maxWait <= 0 =>
          /\ locks' = locks
          /\ \A p \in Callers :
               (pc[p] = "lookup" /\ pc'[p] \notin {"lookup", "ended"}) => pc'[p] = "call"]_vars

C31_Witness ==
  /\ cfg.maxWait <= 0 /\ cfg.ttl = TtlNone /\ cfg.serializer = "bytes"
  /\ \A p \in Callers :
       /\ Ended(p) /\ ncalls[p] = 1 /\ hist[p].invoked = "lockless" /\ hist[p].wrote
       /\ ret[p].kind = "return" /\ ret[p].value # None
  /\ ret["c1"].value # ret["c2"].value
  /\ count = 2

\* C32: last writer wins.  A computation that reaches the SET of its entry
\* with a serializer that works and a store that carries the SET out replaces
\* whatever is under the cache key by its own result; an entry changes only by
\* such a SET or by its expiry in the store, never by a deletion of the
\* wrapper; so the entry holds the result of the last SET applied.
C32_LastWriterWins ==
  [][
     /\ \A p \in Callers :
          (pc[p] = "store" /\ pc'[p] # "store" /\ cfg.serializer = "bytes" /\ ~cfg.flaky) =>
            /\ hist'[p].wrote
            /\ entries'[KeyOf(p)] # Absent
            /\ entries'[KeyOf(p)].value = result[p]
            /\ entries'[KeyOf(p)].by = args[p]
     /\ \A k \in Keys :
          entries'[k] # entries[k] =>
            \/ \E q \in Callers :
                  /\ pc[q] = "store" /\ pc'[q] # "store" /\ KeyOf(q) = k
                  /\ entries'[k] # Absent /\ entries'[k].value = result[q]
            \/ /\ entries'[k] = Absent /\ now' > now
               /\ entries[k].exp # NoExpiry /\ entries[k].exp[1] <= now'
    ]_vars

\* the caller that computed first stored last, over the other's entry
C32_Witness ==
  /\ \A p \in Callers : Ended(p) /\ ncalls[p] = 1 /\ hist[p].wrote
  /\ count = 2
  /\ \E p \in Callers :
       /\ ret[p].value = Val(1)
       /\ entries[KeyOf(p)] # Absent /\ entries[KeyOf(p)].value = Val(1)

\* C33: ttl granularity.  The SET of an entry passes, for a ttl of a whole
\* number of seconds, ex = ttl and no px; for a ttl > 0 with a fraction,
\* px = max(floor(ttl * 1000), 1) and no ex; with no ttl, neither; and the
\* entry expires that long after the SET, or never.
C33_TtlGranularity ==
  [][\A p \in Callers :
       (pc[p] = "store" /\ pc'[p] # "store" /\ hist'[p].wrote) =>
         LET e == entries'[KeyOf(p)]
             us == cfg.ttl.us
         IN  IF cfg.ttl.kind = "none"
             THEN e.ttl_kwargs = [ex |-> <<>>, px |-> <<>>] /\ e.exp = NoExpiry
             ELSE IF us % 1000000 = 0
             THEN /\ e.ttl_kwargs = [ex |-> <<us \div 1000000>>, px |-> <<>>]
                  /\ e.exp = At(now + us \div 1000)
             ELSE LET ms == IF us \div 1000 >= 1 THEN us \div 1000 ELSE 1
                  IN  /\ e.ttl_kwargs = [ex |-> <<>>, px |-> <<ms>>]
                      /\ e.exp = At(now + ms)]_vars

\* a ttl below a millisecond was stored with px = 1
C33_Witness ==
  \E p \in Callers :
    /\ cfg.ttl = TtlNum(500) /\ Ended(p) /\ hist[p].wrote
    /\ entries[KeyOf(p)] # Absent
    /\ entries[KeyOf(p)].ttl_kwargs = [ex |-> <<>>, px |-> <<1>>]
    /\ entries[KeyOf(p)].exp = At(entries[KeyOf(p)].timestamp + 1)

\* C34: validator invocation.  A lookup calls the validator only when its GET
\* found a usable entry; a call with concurrent_max_wait_time <= 0 calls it at
\* most once; and when a caller's second call with the same arguments has
\* ended, under a validator that returns true (no ttl, a working serializer
\* and store, a function that returns), the validator was called once in
\* all, by the second call, and the function once.
C34_ValidatorInvocation ==
  /\ [](\A p \in Callers :
          /\ cfg.maxWait <= 0 => hist[p].vcalls <= 1
          /\ ( /\ Ended(p) /\ ncalls[p] = 2 /\ cfg.callers = {p}
               /\ cfg.validator = "true" /\ cfg.ttl = TtlNone
               /\ cfg.serializer = "bytes" /\ ~cfg.flaky /\ cfg.stored = ""
               /\ Cardinality(cfg.argsOf) = 1
               /\ hist[p].prev.kind = "return" /\ ret[p].kind = "return" )
             => (hist[p].vtotal = 1 /\ hist[p].vcalls = 1 /\ count = 1))
  /\ [][\A p \in Callers :
          hist'[p].vtotal # hist[p].vtotal =>
            /\ pc[p] \in {"lookup", "poll", "final"}
            /\ hist'[p].vtotal = hist[p].vtotal + 1
            /\ cfg.validator # "none"
            /\ Live(entries[KeyOf(p)]) /\ entries[KeyOf(p)].form = "entry"]_vars

\* C35: a caller that is at the compute step without the lock, or past it,
\* never issues the DELETE of the lock key: its steps (the invocation, the
\* SET of the entry) lead to the store step or to the end of the call and
\* leave every lock entry as it is, another caller's included.
C35_LocklessNeverDeletes ==
  /\ [](\A p \in Callers :
          (hist[p].invoked = "lockless" \/ (pc[p] = "call" /\ ~have_lock[p])) =>
            /\ ~have_lock[p] /\ ~hist[p].acquired /\ ~hist[p].deleted
            /\ pc[p] \in {"call", "store", "ended"})
  /\ [][\A p \in Callers :
          (pc[p] \in {"call", "store"} /\ ~have_lock[p] /\ pc'[p] # pc[p]) =>
            /\ pc'[p] \in {"store", "ended"}
            /\ locks' = locks]_vars

\* a caller computed without the lock, wrote the entry and ended while the
\* other caller, still computing, holds the lock
C35_Witness ==
  \E p, q \in Callers :
    /\ p # q /\ Ended(p) /\ hist[p].invoked = "lockless" /\ hist[p].timedOut
    /\ hist[p].wrote /\ ~hist[p].deleted
    /\ Live(locks[KeyOf(p)]) /\ locks[KeyOf(p)].owner = q
    /\ pc[q] = "call" /\ have_lock[q]

\* C36: a caller that acquires the lock goes on to invoke the wrapped
\* function without another lookup, whatever is under the cache key by then;
\* where the configuration stores results, its SET then replaces the entry
\* another caller stored in the meantime.
C36_NoRecheckAfterAcquire ==
  /\ [](\A p \in Callers :
          have_lock[p] => pc[p] \in {"call", "store", "unlock", "ended"})
  /\ [][\A p \in Callers :
          /\ (have_lock'[p] /\ ~have_lock[p]) =>
                (pc[p] = "trylock" /\ pc'[p] = "call" /\ entries' = entries)
          /\ (pc[p] = "call" /\ have_lock[p] /\ pc'[p] # "call") =>
                (count' = count + 1 /\ hist'[p].invoked = "locked")
          /\ (pc[p] = "store" /\ have_lock[p] /\ pc'[p] # "store" /\ Storing) =>
                (entries'[KeyOf(p)] # Absent /\ entries'[KeyOf(p)].value = result[p])]_vars

\* the other caller stored its entry and released the lock after this
\* caller's last lookup and before its SET NX: this caller, holding the lock,
\* computed again and replaced the entry
C36_Witness ==
  \E p, q \in Callers :
    /\ p # q /\ cfg.maxWait > 0 /\ Storing
    /\ Ended(q) /\ ncalls[q] = 1 /\ hist[q].invoked = "locked" /\ hist[q].wrote
    /\ hist[q].deleted /\ ret[q] = Returned(Val(1))
    /\ Ended(p) /\ ncalls[p] = 1 /\ hist[p].invoked = "locked" /\ ~hist[p].timedOut
    /\ hist[p].wrote /\ ret[p] = Returned(Val(2))
    /\ entries[KeyOf(p)] # Absent /\ entries[KeyOf(p)].value = Val(2)
    /\ now < 1000

\* C37: an entry whose value is None is never served.  A lookup that finds a
\* usable entry holding None goes on as after a miss (or raises, when the
\* validator raises and ignore_validation_error is false); so a call that
\* returns None invoked the wrapped function itself, and a call that ended
\* without invoking it did not return None.
C37_NoneNeverServed ==
  /\ [](\A p \in Callers :
          (Ended(p) /\ ret[p].kind = "return") =>
            /\ ret[p].value = None => (hist[p].invoked # "no" /\ result[p] = None)
            /\ hist[p].invoked = "no" => ret[p].value # None)
  /\ [][\A p \in Callers :
          ( /\ pc[p] \in {"lookup", "poll", "final"} /\ pc'[p] # pc[p]
            /\ Live(entries[KeyOf(p)]) /\ entries[KeyOf(p)].form = "entry"
            /\ entries[KeyOf(p)].value = None ) =>
            \/ pc'[p] = AfterMiss(pc[p])
            \/ /\ cfg.validator = "raise" /\ ~cfg.ive
               /\ pc'[p] = "ended" /\ ret'[p] = Raised("ValidatorError")]_vars

\* a caller that waited for the other's computation, whose result None is in
\* the store, invoked the wrapped function itself
C37_Witness ==
  \E p, q \in Callers :
    /\ p # q /\ cfg.maxWait > 0 /\ cfg.ttl = TtlNone
    /\ Ended(q) /\ ncalls[q] = 1 /\ hist[q].invoked = "locked" /\ hist[q].wrote
    /\ ret[q] = Returned(None)
    /\ Ended(p) /\ ncalls[p] = 1 /\ hist[p].sleeps > 0
    /\ hist[p].accepted /\ hist[p].seen = None /\ hist[p].invoked # "no"
    /\ hist[p].wrote /\ entries[KeyOf(p)] # Absent

\* C38: the SET of the entry precedes the DELETE of the lock key.  Where the
\* configuration stores results and the store works, a lock holder whose
\* function returned is at its DELETE, or past it, only after its SET was
\* carried out; the DELETE leaves the entries as they are, and the entry it
\* leaves is the holder's when no other caller has written one; so while that
\* call is at its DELETE or has ended, the cache key holds an entry (the
\* holder's, or one that replaced it), unless a ttl has let it expire.
C38_SetBeforeDelete ==
  /\ [](\A q \in Callers :
          ( /\ Storing /\ ~cfg.flaky /\ hist[q].acquired
            /\ \/ pc[q] = "unlock" /\ pending[q].kind = "return"
               \/ pc[q] = "ended" /\ ret[q].kind = "return" ) =>
            /\ hist[q].wrote
            /\ cfg.ttl = TtlNone =>
                  (Live(entries[KeyOf(q)]) /\ entries[KeyOf(q)].form = "entry"))
  /\ [][\A q \in Callers :
          (pc[q] = "unlock" /\ pc'[q] # "unlock") =>
            /\ entries' = entries
            /\ (Storing /\ ~cfg.flaky /\ pending[q].kind = "return"
                  /\ entries[KeyOf(q)] # Absent
                  /\ \A r \in Callers \ {q} : ncalls[r] <= 1 /\ ~hist[r].wrote) =>
                  entries[KeyOf(q)].value = result[q]]_vars

\* a caller that waited while the holder computed found, once the lock was
\* gone, the holder's entry, and returned its value
C38_Witness ==
  \E p, q \in Callers :
    /\ p # q /\ Storing /\ cfg.maxWait > 0
    /\ Ended(q) /\ hist[q].acquired /\ hist[q].wrote /\ hist[q].deleted
    /\ ret[q] = Returned(Val(1))
    /\ ~Live(locks[KeyOf(q)])
    /\ Ended(p) /\ hist[p].sleeps > 0 /\ hist[p].invoked = "no"
    /\ ret[p] = Returned(Val(1)) /\ count = 1

\* C39: value provenance.  A call that returns returns the result of its own
\* invocation of the wrapped function, or, when it did not invoke it, the
\* value of an entry that a lookup of this call found under the call's own
\* cache key, stored by a call with that cache key, with no validator or a
\* validator that accepted it.
C39_ValueProvenance ==
  /\ [](\A p \in Callers :
          (Ended(p) /\ ret[p].kind = "return") =>
            IF hist[p].invoked # "no"
            THEN ret[p].value = result[p]
            ELSE hist[p].accepted /\ ret[p].value = hist[p].seen)
  /\ [][\A p \in Callers :
          ( /\ pc[p] \in {"lookup", "poll", "final"} /\ pc'[p] = "ended"
            /\ ret'[p].kind = "return" ) =>
            LET e == entries[KeyOf(p)]
            IN  /\ Live(e) /\ e.form = "entry"
                /\ ret'[p].value = e.value
                /\ hist'[p].seen = e.value
                /\ cfg.validator \in {"none", "true"}
                /\ e.by # NoCall => CacheKey(e.by) = KeyOf(p)]_vars

\* a call returned the entry of its own cache key, accepted by the validator,
\* where the calls have several cache keys
C39_Witness ==
  \E p \in Callers :
    /\ Cardinality(Keys) > 1 /\ cfg.validator = "true"
    /\ Ended(p) /\ ncalls[p] = 2 /\ hist[p].invoked = "no" /\ hist[p].accepted
    /\ ret[p] = Returned(Val(1)) /\ hist[p].vcalls = 1
    /\ entries[KeyOf(p)] # Absent /\ entries[KeyOf(p)].by # args[p]

\* C40: waiter responsiveness.  In the polling loop the lookup comes before
\* the lock attempt and a sleep lasts one check interval; a poll that finds a
\* usable entry (accepted by the validator, if any; the store working) ends
\* the call with the entry's value, with no lock attempt and no invocation of
\* the wrapped function.
C40_WaiterResponsiveness ==
  [][\A p \in Callers :
       /\ (pc'[p] = "trylock" /\ pc[p] # "trylock") => pc[p] = "poll"
       /\ (pc'[p] = "sleep" /\ pc[p] # "sleep") =>
             wakeAt'[p] = now + EffectiveCheckInterval
       /\ ( /\ pc[p] = "poll" /\ pc'[p] # "poll"
            /\ Live(entries[KeyOf(p)]) /\ entries[KeyOf(p)].form = "entry"
            /\ cfg.validator \in {"none", "true"} /\ ~cfg.flaky ) =>
            /\ pc'[p] = "ended"
            /\ ret'[p] = Returned(entries[KeyOf(p)].value)
            /\ hist'[p].invoked = "no" /\ count' = count
            /\ hist'[p].lastLock = hist[p].lastLock
            /\ locks' = locks]_vars

====
